---- MODULE Spec2Model ----
(***************************************************************************)
(* Model of menu-bar/src-tauri/src/main.rs: the Tauri commands of the      *)
(* "code corpses" menu-bar application.                                    *)
(*                                                                         *)
(* Three JSON files are the persistent state:                              *)
(*   zombie-alerts.json       (get_zombie_alerts, mark_alert_read,         *)
(*                             clear_all_alerts)                           *)
(*   .cemetery/asset-index.json         (get_stats, trigger_scan)          *)
(*   .cemetery/tombstone-registry.json  (get_stats, get_recent_corpses,    *)
(*                                       trigger_scan)                     *)
(* Every command runs to completion; `call' and `ret' record the last      *)
(* command invoked (its argument, the clock reading `at' it took, whether  *)
(* an upsert `found' its id in the registry) and what it returned.         *)
(*                                                                         *)
(* Spec          : the zombie-alert commands over every content of the     *)
(*                 alert file.                                             *)
(* StatsSpec     : get_stats and trigger_scan over every content of the    *)
(*                 asset index.                                            *)
(* CemeterySpec  : get_recent_corpses, trigger_scan and the registry's     *)
(*                 upsert over every content of the tombstone registry.    *)
(***************************************************************************)
EXTENDS Integers, Sequences, FiniteSets, TLC

VARIABLES alertStore, assetStore, tombStore, call, ret

vars == <<alertStore, assetStore, tombStore, call, ret>>

-----------------------------------------------------------------------------
(* Bounds of the model *)

MaxAlerts == 2      \* entries in the "alerts" array of the alert file
MaxTime   == 2      \* readings of the wall clock, 1..MaxTime
MaxAssets == 2      \* records in the asset index
MaxTombs  == 3      \* records in the tombstone registry
MaxLimit  == 3      \* largest `limit' passed to get_recent_corpses
MinLimit  == 1      \* magnitude of the most negative `limit'

-----------------------------------------------------------------------------
(* Values *)

Min(a, b) == IF a <= b THEN a ELSE b

Range(s) == {s[i] : i \in 1..Len(s)}

\* Sequences over S of length at most n.
SeqUpTo(S, n) == UNION {[1..k -> S] : k \in 0..n}

\* A timestamp rendered by DateTime::to_rfc3339: a string that names the
\* instant it was taken at.
Rfc3339(t) == [tag |-> "rfc3339", t |-> t]

\* The literal "从未检查" ("never checked").
NeverChecked == [tag |-> "never", t |-> 0]

\* "last_check" is absent from the document or is not a JSON string.
NoString == [tag |-> "nostring", t |-> 0]

\* Result<(), String> and the panic a command can end in.
Ok(v)   == [status |-> "ok", value |-> v]
Err(e)  == [status |-> "err", value |-> e]
Panic   == [status |-> "panic", value |-> "panic"]
Unit    == "unit"

-----------------------------------------------------------------------------
(* The alert file *)

\* alert ids a stored entry can carry in its "id" member
AlertIds == {"a", "b"}

\* alert ids a caller can pass: those and one that no entry carries
CallerIds == AlertIds \cup {"c"}

\* One element of the "alerts" array, as the JSON holds it:
\*   id       : a string of AlertIds, or "missing" (no "id" member, or not a
\*              string, or the element is not an object at all)
\*   notified : "true" / "false", or "missing" (absent or not a boolean)
\*   body     : the other eight members of ZombieAlert taken together:
\*              "p1" when all are present with the right types, "bad" when
\*              one is absent or ill-typed
Entries == [id : AlertIds \cup {"missing"},
            notified : {"true", "false", "missing"},
            body : {"p1", "bad"}]

\* serde_json::from_value::<ZombieAlert>(v).ok() is Some
WellFormed(e) ==
    /\ e.id /= "missing"
    /\ e.notified \in {"true", "false"}
    /\ e.body /= "bad"

\* the ZombieAlert that from_value builds from a well-formed entry
AlertOf(e) == [id |-> e.id, body |-> e.body, notified |-> (e.notified = "true")]

\* The file:
\*   kind "absent"  : no file (or it cannot be read)
\*        "corrupt" : the content is not JSON
\*        "null"    : the JSON document is null
\*        "scalar"  : the JSON document is a number, string, boolean or array
\*        "object"  : the JSON document is an object
\*   isArray : the object has an "alerts" member that is an array
\*   alerts  : the elements of that array (<<>> when there is none)
\*   last_check : the "last_check" member
AbsentAlerts  == [kind |-> "absent",  isArray |-> FALSE, alerts |-> <<>>, last_check |-> NoString]
CorruptAlerts == [kind |-> "corrupt", isArray |-> FALSE, alerts |-> <<>>, last_check |-> NoString]
NullAlerts    == [kind |-> "null",    isArray |-> FALSE, alerts |-> <<>>, last_check |-> NoString]
ScalarAlerts  == [kind |-> "scalar",  isArray |-> FALSE, alerts |-> <<>>, last_check |-> NoString]

ObjectAlerts(isArray, alerts, lc) ==
    [kind |-> "object", isArray |-> isArray, alerts |-> alerts, last_check |-> lc]

AlertStores ==
    {AbsentAlerts, CorruptAlerts, NullAlerts, ScalarAlerts}
    \cup {ObjectAlerts(FALSE, <<>>, lc) : lc \in {NoString, Rfc3339(0)}}
    \cup {ObjectAlerts(TRUE, es, lc) :
            es \in SeqUpTo(Entries, MaxAlerts), lc \in {NoString, Rfc3339(0)}}

-----------------------------------------------------------------------------
(* get_zombie_alerts *)

\* The listing with an entry that fails to parse ending it (faulty variant of
\* ParseAlerts).
RECURSIVE ParseAlertsAbort(_)
ParseAlertsAbort(es) ==
    IF es = <<>> THEN <<>>
    ELSE IF WellFormed(Head(es))
         THEN <<AlertOf(Head(es))>> \o ParseAlertsAbort(Tail(es))
         ELSE <<>>

\* arr.iter().filter_map(|v| serde_json::from_value(v.clone()).ok()).collect()
RECURSIVE ParseAlerts(_)
ParseAlerts(es) ==
    IF es = <<>> THEN <<>>
    ELSE IF WellFormed(Head(es))
         THEN <<AlertOf(Head(es))>> \o ParseAlerts(Tail(es))
         ELSE ParseAlerts(Tail(es))

\* alerts.iter().filter(|a| !a.notified).count()
RECURSIVE CountUnread(_)
CountUnread(as) ==
    IF as = <<>> THEN 0
    ELSE (IF Head(as).notified THEN 0 ELSE 1) + CountUnread(Tail(as))

\* data["last_check"].as_str().unwrap_or("从未检查")
LastCheckOf(store) ==
    IF store.last_check = NoString THEN NeverChecked ELSE store.last_check

\* The ZombieAlerts value get_zombie_alerts returns for a content of the file.
GetZombieAlerts(store) ==
    IF store.kind \in {"absent", "corrupt"}
    THEN [alerts |-> <<>>, last_check |-> NeverChecked,
          total_alerts |-> 0, unread_count |-> 0]
    ELSE LET alerts == IF store.isArray THEN ParseAlerts(store.alerts) ELSE <<>>
         IN  [alerts |-> alerts,
              last_check |-> LastCheckOf(store),
              total_alerts |-> Len(alerts),
              unread_count |-> CountUnread(alerts)]

get_zombie_alerts ==
    /\ call' = [op |-> "get_zombie_alerts", arg |-> "none", at |-> 0, found |-> FALSE]
    /\ ret' = Ok(GetZombieAlerts(alertStore))
    /\ UNCHANGED <<alertStore, assetStore, tombStore>>

-----------------------------------------------------------------------------
(* mark_alert_read *)

\* The loop of mark_alert_read with the flag flipped instead of set (faulty
\* variant of MarkEntries).
RECURSIVE MarkEntriesToggle(_, _)
MarkEntriesToggle(es, alert_id) ==
    IF es = <<>> THEN <<>>
    ELSE IF Head(es).id = alert_id
         THEN <<[Head(es) EXCEPT !.notified =
                    IF @ = "true" THEN "false" ELSE "true"]>> \o Tail(es)
         ELSE <<Head(es)>> \o MarkEntriesToggle(Tail(es), alert_id)

\* for alert in alerts { if alert["id"] == alert_id
\*                         { alert["notified"] = json!(true); break; } }
\* The first element whose "id" is the string alert_id gets "notified": true,
\* inserted when the member is absent; the other members are left alone.
RECURSIVE MarkEntries(_, _)
MarkEntries(es, alert_id) ==
    IF es = <<>> THEN <<>>
    ELSE IF Head(es).id = alert_id
         THEN <<[Head(es) EXCEPT !.notified = "true"]>> \o Tail(es)
         ELSE <<Head(es)>> \o MarkEntries(Tail(es), alert_id)

\* The document mark_alert_read writes back: data["alerts"] through IndexMut
\* turns a null document into an object (with "alerts": null) and leaves an
\* object an object.
MarkedStore(store, alert_id) ==
    ObjectAlerts(store.isArray,
                 IF store.isArray THEN MarkEntries(store.alerts, alert_id) ELSE <<>>,
                 store.last_check)

\* writeOk: fs::write succeeds.  A write that fails leaves the file as it was.
mark_alert_read(alert_id, writeOk) ==
    /\ call' = [op |-> "mark_alert_read", arg |-> alert_id, at |-> 0, found |-> FALSE]
    /\ CASE alertStore.kind = "absent" ->
              \* !path.exists(): return Ok(())
              /\ ret' = Ok(Unit)
              /\ UNCHANGED alertStore
         [] alertStore.kind = "corrupt" ->
              \* serde_json::from_str(..).map_err(..)?
              /\ ret' = Err("parse")
              /\ UNCHANGED alertStore
         [] alertStore.kind = "scalar" ->
              \* IndexMut<&str> on a Value that is neither null nor an object
              /\ ret' = Panic
              /\ UNCHANGED alertStore
         [] OTHER ->
              IF writeOk
              THEN /\ alertStore' = MarkedStore(alertStore, alert_id)
                   /\ ret' = Ok(Unit)
              ELSE /\ ret' = Err("write")
                   /\ UNCHANGED alertStore
    /\ UNCHANGED <<assetStore, tombStore>>

-----------------------------------------------------------------------------
(* clear_all_alerts *)

\* The document of clear_all_alerts with the stamp of the file it replaces
\* kept (faulty variant of ClearedStore).
ClearedStoreKeepStamp(store, t) == ObjectAlerts(TRUE, <<>>, store.last_check)

\* ZombieAlerts { alerts: vec![], last_check: Utc::now().to_rfc3339(), .. }
\* serialized over whatever the file held.
ClearedStore(store, t) == ObjectAlerts(TRUE, <<>>, Rfc3339(t))

\* t: the reading of the wall clock that Utc::now() returns.
clear_all_alerts(t, writeOk) ==
    /\ call' = [op |-> "clear_all_alerts", arg |-> "none", at |-> t, found |-> FALSE]
    /\ IF writeOk
       THEN /\ alertStore' = ClearedStore(alertStore, t)
            /\ ret' = Ok(Unit)
       ELSE /\ ret' = Err("write")
            /\ UNCHANGED alertStore
    /\ UNCHANGED <<assetStore, tombStore>>

-----------------------------------------------------------------------------
(* The asset index and the tombstone registry *)

\* Asset, reduced to the member get_stats reads.
Assets == [alive : BOOLEAN]

\* asset-index.json: absent (or unreadable), not a Vec<Asset>, or a Vec<Asset>
\* with the time the file was last modified.
AbsentAssets  == [kind |-> "absent",  assets |-> <<>>, mtime |-> 0]
CorruptAssets == [kind |-> "corrupt", assets |-> <<>>, mtime |-> 0]

AssetStores ==
    {AbsentAssets, CorruptAssets}
    \cup {[kind |-> "ok", assets |-> as, mtime |-> 1] : as \in SeqUpTo(Assets, MaxAssets)}

TombIds == {"t1", "t2", "t3"}

\* died_at is a String; the strings here are over the characters 1 < 2, so
\* that <<1>> < <<1, 2>> < <<2>> in the byte-wise order of String::cmp.
DiedAts == {<<1>>, <<1, 2>>, <<2>>}

\* Tombstone, reduced to the members the commands read: id, died_at and
\* resurrected_at.is_some().
Tombstones == [id : TombIds, died_at : DiedAts, resurrected : BOOLEAN]

HasId(records, id) == \E i \in 1..Len(records) : records[i].id = id

UniqueIds(records) ==
    \A i, j \in 1..Len(records) : records[i].id = records[j].id => i = j

AbsentTombs  == [kind |-> "absent",  records |-> <<>>]
CorruptTombs == [kind |-> "corrupt", records |-> <<>>]
OkTombs(records) == [kind |-> "ok", records |-> records]

\* tombstone-registry.json: absent (or unreadable), not a Vec<Tombstone>, or a
\* Vec<Tombstone> in any order, one record per id.
TombStores ==
    {AbsentTombs, CorruptTombs}
    \cup {OkTombs(rs) : rs \in {s \in SeqUpTo(Tombstones, MaxTombs) : UniqueIds(s)}}

-----------------------------------------------------------------------------
(* get_stats *)

\* assets.iter().filter(|a| a.alive).count()
RECURSIVE CountAlive(_)
CountAlive(as) ==
    IF as = <<>> THEN 0
    ELSE (IF Head(as).alive THEN 1 ELSE 0) + CountAlive(Tail(as))

\* tombstones.iter().filter(|t| t.resurrected_at.is_some()).count()
RECURSIVE CountResurrected(_)
CountResurrected(ts) ==
    IF ts = <<>> THEN 0
    ELSE (IF Head(ts).resurrected THEN 1 ELSE 0) + CountResurrected(Tail(ts))

\* total_assets - alive_assets on usize: the difference when it exists;
\* otherwise the subtraction overflows (a panic in a debug build, 2^64 - (b - a)
\* in a release build), which UsizeOverflow stands for.
UsizeOverflow == -1

UsizeSub(a, b) == IF b <= a THEN a - b ELSE UsizeOverflow

\* dt.format("%Y-%m-%d %H:%M:%S") of the file's modification time
FormatTime(t) == [tag |-> "ymdhms", t |-> t]

\* String::from("未知") ("unknown")
Unknown == [tag |-> "unknown", t |-> 0]

\* get_stats with total_assets taken from the records that are not alive
\* (faulty variant of StatsOf).
StatsOfDeadTotal(assets, tombs, mtimeOk) ==
    LET readA == assets.kind = "ok"
        readT == tombs.kind = "ok"
        total == IF readA THEN Len(assets.assets) - CountAlive(assets.assets) ELSE 0
        alive == IF readA THEN CountAlive(assets.assets) ELSE 0
    IN  [total_assets |-> total,
         alive_assets |-> alive,
         dead_assets |-> UsizeSub(total, alive),
         total_tombstones |-> IF readT THEN Len(tombs.records) ELSE 0,
         resurrected |-> IF readT THEN CountResurrected(tombs.records) ELSE 0,
         last_scan |-> IF readA /\ mtimeOk THEN FormatTime(assets.mtime) ELSE Unknown]

\* The Stats value get_stats returns.  mtimeOk: fs::metadata and modified()
\* succeed on the asset index.
StatsOf(assets, tombs, mtimeOk) ==
    LET readA == assets.kind = "ok"
        readT == tombs.kind = "ok"
        total == IF readA THEN Len(assets.assets) ELSE 0
        alive == IF readA THEN CountAlive(assets.assets) ELSE 0
    IN  [total_assets |-> total,
         alive_assets |-> alive,
         dead_assets |-> UsizeSub(total, alive),
         total_tombstones |-> IF readT THEN Len(tombs.records) ELSE 0,
         resurrected |-> IF readT THEN CountResurrected(tombs.records) ELSE 0,
         last_scan |-> IF readA /\ mtimeOk THEN FormatTime(assets.mtime) ELSE Unknown]

get_stats(mtimeOk) ==
    /\ call' = [op |-> "get_stats", arg |-> "none", at |-> 0, found |-> FALSE]
    /\ ret' = Ok(StatsOf(assetStore, tombStore, mtimeOk))
    /\ UNCHANGED <<alertStore, assetStore, tombStore>>

-----------------------------------------------------------------------------
(* get_recent_corpses *)

\* a.cmp(&b) on String: byte-wise lexicographic, a proper prefix being less
RECURSIVE StrLess(_, _)
StrLess(a, b) ==
    IF b = <<>> THEN FALSE
    ELSE IF a = <<>> THEN TRUE
    ELSE IF Head(a) < Head(b) THEN TRUE
    ELSE IF Head(b) < Head(a) THEN FALSE
    ELSE StrLess(Tail(a), Tail(b))

\* get_mock_corpses(): three fixed records, died 2024, 2023 and 2022
MockCorpses ==
    << [id |-> "regex-validator", died_at |-> <<2, 0, 2, 4>>, resurrected |-> FALSE],
       [id |-> "vue2-admin",      died_at |-> <<2, 0, 2, 3>>, resurrected |-> FALSE],
       [id |-> "jquery-branch",   died_at |-> <<2, 0, 2, 2>>, resurrected |-> FALSE] >>

\* The place of one more record under the comparator a.died_at.cmp(&b.died_at)
\* (faulty variant of InsertDesc: the operands the other way round).
RECURSIVE InsertAsc(_, _)
InsertAsc(sorted, x) ==
    IF sorted = <<>> THEN <<x>>
    ELSE IF StrLess(x.died_at, Head(sorted).died_at)
         THEN <<x>> \o sorted
         ELSE <<Head(sorted)>> \o InsertAsc(Tail(sorted), x)

\* The place of one more record in a sequence sorted under the comparator
\* |a, b| b.died_at.cmp(&a.died_at): before the first record that died
\* strictly earlier, so behind the records it ties with (sort_by is stable).
RECURSIVE InsertDesc(_, _)
InsertDesc(sorted, x) ==
    IF sorted = <<>> THEN <<x>>
    ELSE IF StrLess(Head(sorted).died_at, x.died_at)
         THEN <<x>> \o sorted
         ELSE <<Head(sorted)>> \o InsertDesc(Tail(sorted), x)

\* tombstones.sort_by(|a, b| b.died_at.cmp(&a.died_at))
RECURSIVE SortByDiedAt(_)
SortByDiedAt(ts) ==
    IF ts = <<>> THEN <<>>
    ELSE InsertDesc(SortByDiedAt(SubSeq(ts, 1, Len(ts) - 1)), ts[Len(ts)])

\* .take(limit as usize) on len records.  A negative i32 cast to usize is at
\* least 2^32 - 2^31, more than a Vec holds, so every record is taken.
TakeCount(limit, len) == IF limit < 0 THEN len ELSE Min(limit, len)

\* The Vec<Tombstone> get_recent_corpses returns.
RecentCorpses(tombs, limit) ==
    IF tombs.kind /= "ok"
    THEN MockCorpses
    ELSE LET sorted == SortByDiedAt(tombs.records)
         IN  SubSeq(sorted, 1, TakeCount(limit, Len(sorted)))

get_recent_corpses(limit) ==
    /\ call' = [op |-> "get_recent_corpses", arg |-> limit, at |-> 0, found |-> FALSE]
    /\ ret' = Ok(RecentCorpses(tombStore, limit))
    /\ UNCHANGED <<alertStore, assetStore, tombStore>>

-----------------------------------------------------------------------------
(* trigger_scan *)

\* The ScanResult trigger_scan builds from get_stats().
ScanResultOf(assets, tombs) ==
    LET stats == StatsOf(assets, tombs, TRUE)
    IN  [success |-> TRUE,
         scanned |-> stats.total_assets,
         zombies |-> stats.total_tombstones,
         message |-> <<"found", stats.total_tombstones>>]

trigger_scan ==
    /\ call' = [op |-> "trigger_scan", arg |-> "none", at |-> 0, found |-> FALSE]
    /\ ret' = Ok(ScanResultOf(assetStore, tombStore))
    /\ UNCHANGED <<alertStore, assetStore, tombStore>>

-----------------------------------------------------------------------------
(* Tombstone Registry upsert (specification section 4.1) *)

\* the hard cap on the number of records kept
RetentionCap == 100

\* upsert without eviction of the record that has the id already (faulty
\* variant of UpsertRecords).
UpsertRecordsKeep(records, t) ==
    SubSeq(<<t>> \o records, 1, Min(RetentionCap, Len(records) + 1))

\* The sequence after upsert(t): the record with t's id removed, t inserted at
\* the front, the result cut to the first RetentionCap records.
UpsertRecords(records, t) ==
    LET others == SelectSeq(records, LAMBDA r : r.id /= t.id)
    IN  SubSeq(<<t>> \o others, 1, Min(RetentionCap, Len(others) + 1))

\* All-or-nothing: a write that fails leaves the persisted sequence as it was.
\* An absent or unreadable registry is taken as empty.
upsert(t, writeOk) ==
    /\ call' = [op |-> "upsert", arg |-> t, at |-> 0,
                found |-> HasId(tombStore.records, t.id)]
    /\ IF writeOk
       THEN /\ tombStore' = OkTombs(UpsertRecords(tombStore.records, t))
            /\ ret' = Ok(Unit)
       ELSE /\ ret' = Err("write")
            /\ UNCHANGED tombStore
    /\ UNCHANGED <<alertStore, assetStore>>

-----------------------------------------------------------------------------
(* Specifications *)

NoCall == [op |-> "none", arg |-> "none", at |-> 0, found |-> FALSE]

Init ==
    /\ alertStore \in AlertStores
    /\ assetStore = AbsentAssets
    /\ tombStore = AbsentTombs
    /\ call = NoCall
    /\ ret = Ok(Unit)

Next ==
    \/ get_zombie_alerts
    \/ \E alert_id \in CallerIds, writeOk \in BOOLEAN : mark_alert_read(alert_id, writeOk)
    \/ \E t \in 1..MaxTime, writeOk \in BOOLEAN : clear_all_alerts(t, writeOk)

Spec == Init /\ [][Next]_vars

StatsInit ==
    /\ alertStore = AbsentAlerts
    /\ assetStore \in AssetStores
    /\ tombStore \in {ts \in TombStores : Len(ts.records) <= 1}
    /\ call = NoCall
    /\ ret = Ok(Unit)

StatsNext ==
    \/ \E mtimeOk \in BOOLEAN : get_stats(mtimeOk)
    \/ trigger_scan

StatsSpec == StatsInit /\ [][StatsNext]_vars

CemeteryInit ==
    /\ alertStore = AbsentAlerts
    /\ assetStore = AbsentAssets
    /\ tombStore \in TombStores
    /\ call = NoCall
    /\ ret = Ok(Unit)

CemeteryNext ==
    \/ \E limit \in (0 - MinLimit)..MaxLimit : get_recent_corpses(limit)
    \/ trigger_scan
    \/ \E t \in Tombstones, writeOk \in BOOLEAN : upsert(t, writeOk)

CemeterySpec == CemeteryInit /\ [][CemeteryNext]_vars

-----------------------------------------------------------------------------
(* Properties of the zombie-alert commands (Spec) *)

\* The step is an invocation of the command op.
Fired(op) == call'.op = op

\* the alerts get_zombie_alerts lists for a content of the file
View(store) == GetZombieAlerts(store).alerts

NumRead(as) == Cardinality({i \in 1..Len(as) : as[i].notified})

\* C1: over get_zombie_alerts, mark_alert_read and clear_all_alerts, a listed
\* alert either stays listed as it is, or goes from unread to read in a
\* mark_alert_read called with its id, or is removed by a clear_all_alerts
\* that empties the listing; no step lowers the number of listed alerts or of
\* read alerts otherwise.
C1_AlertLifecycle ==
    [][ \/ /\ Fired("clear_all_alerts")
           /\ ret'.status = "ok"
           /\ View(alertStore') = <<>>
        \/ LET before == View(alertStore)
               after  == View(alertStore')
           IN  /\ Len(after) >= Len(before)
               /\ NumRead(after) >= NumRead(before)
               /\ \A a \in Range(before) :
                    \/ a \in Range(after)
                    \/ /\ ~a.notified
                       /\ Fired("mark_alert_read")
                       /\ call'.arg = a.id
                       /\ [a EXCEPT !.notified = TRUE] \in Range(after)
      ]_vars

\* An unread alert was marked read while another alert stayed unread.
C1_Witness ==
    /\ call.op = "mark_alert_read"
    /\ ret.status = "ok"
    /\ alertStore.isArray
    /\ Len(alertStore.alerts) = 2
    /\ alertStore.alerts[1] = [id |-> "a", notified |-> "false", body |-> "p1"]
    /\ alertStore.alerts[2] = [id |-> "b", notified |-> "true", body |-> "p1"]
    /\ call.arg = "b"

\* No listed alert with this id is unread: the id is unknown, or its alert is
\* already read.
NothingToMark(store, alert_id) ==
    \A a \in Range(View(store)) : a.id = alert_id => a.notified

\* C2: mark_alert_read(id), for an id that is unknown or whose alert is
\* already read, returns success (a write the file system refuses aside) and
\* leaves unread_count and the listed alerts as they were.
C2_MarkNoOp ==
    [][ (Fired("mark_alert_read") /\ NothingToMark(alertStore, call'.arg))
        => /\ ret'.status = "ok" \/ ret' = Err("write")
           /\ GetZombieAlerts(alertStore').unread_count
                = GetZombieAlerts(alertStore).unread_count
           /\ View(alertStore') = View(alertStore)
      ]_vars

\* C3: get_zombie_alerts right after a successful clear_all_alerts returns no
\* alerts, zero counts and the timestamp that clear_all_alerts took.
C3_ClearThenGet ==
    [][ (/\ call.op = "clear_all_alerts"
         /\ ret.status = "ok"
         /\ Fired("get_zombie_alerts"))
        => ret' = Ok([alerts |-> <<>>,
                      last_check |-> Rfc3339(call.at),
                      total_alerts |-> 0,
                      unread_count |-> 0])
      ]_vars

\* get_zombie_alerts reports the stamp of a clear_all_alerts made at the
\* second reading of the clock.
C3_Witness ==
    /\ call.op = "get_zombie_alerts"
    /\ ret.value.total_alerts = 0
    /\ ret.value.last_check = Rfc3339(2)

\* C4: get_zombie_alerts returns the well-formed stored entries, all of them
\* and in stored order, skipping the malformed ones; total_alerts is their
\* number, unread_count the number of those not notified, and
\* unread_count <= total_alerts.
C4_Listing ==
    call.op = "get_zombie_alerts" =>
        LET v  == ret.value
            es == alertStore.alerts
            wf == {i \in 1..Len(es) : WellFormed(es[i])}
        IN  /\ v.total_alerts = Len(v.alerts)
            /\ v.unread_count = Cardinality({i \in 1..Len(v.alerts) : ~v.alerts[i].notified})
            /\ v.unread_count <= v.total_alerts
            /\ Len(v.alerts) = Cardinality(wf)
            /\ \E f \in [1..Len(v.alerts) -> wf] :
                 /\ \A i, j \in 1..Len(v.alerts) : i < j => f[i] < f[j]
                 /\ \A i \in 1..Len(v.alerts) :
                      /\ v.alerts[i].id = es[f[i]].id
                      /\ v.alerts[i].body = es[f[i]].body
                      /\ v.alerts[i].notified <=> es[f[i]].notified = "true"

\* A listing that skipped a malformed first entry and returned the unread
\* alert stored behind it.
C4_Witness ==
    /\ call.op = "get_zombie_alerts"
    /\ Len(alertStore.alerts) = 2
    /\ ~WellFormed(alertStore.alerts[1])
    /\ ret.value.total_alerts = 1
    /\ ret.value.unread_count = 1

\* C10: mark_alert_read changes nothing that get_zombie_alerts returns but
\* notified flags: total_alerts, last_check and the ids and other members of
\* the listed alerts are the same before and after.
C10_MarkFrame ==
    [][ Fired("mark_alert_read")
        => LET b == GetZombieAlerts(alertStore)
               a == GetZombieAlerts(alertStore')
           IN  /\ a.total_alerts = b.total_alerts
               /\ a.last_check = b.last_check
               /\ Len(a.alerts) = Len(b.alerts)
               /\ \A i \in 1..Min(Len(a.alerts), Len(b.alerts)) :
                    /\ a.alerts[i].id = b.alerts[i].id
                    /\ a.alerts[i].body = b.alerts[i].body
      ]_vars

-----------------------------------------------------------------------------
(* Properties of get_stats and trigger_scan (StatsSpec) *)

\* C7: get_stats returns alive_assets <= total_assets and
\* dead_assets = total_assets - alive_assets, the number of stored assets
\* that are not alive; an asset index that is absent or unreadable gives
\* zero counts.
C7_StatsCounts ==
    call.op = "get_stats" =>
        LET v  == ret.value
            as == assetStore.assets
        IN  /\ ret.status = "ok"
            /\ v.alive_assets <= v.total_assets
            /\ v.dead_assets = v.total_assets - v.alive_assets
            /\ v.dead_assets = Cardinality({i \in 1..Len(as) : ~as[i].alive})
            /\ v.total_assets = Len(as)
            /\ assetStore.kind /= "ok" =>
                 /\ v.total_assets = 0
                 /\ v.alive_assets = 0
                 /\ v.dead_assets = 0
                 /\ v.last_scan = Unknown
            /\ tombStore.kind /= "ok" =>
                 /\ v.total_tombstones = 0
                 /\ v.resurrected = 0

\* Stats of an index holding one alive and one dead asset.
C7_Witness ==
    /\ call.op = "get_stats"
    /\ ret.value.total_assets = 2
    /\ ret.value.alive_assets = 1
    /\ ret.value.dead_assets = 1

\* C8: in every result of trigger_scan, zombies (the records classified
\* dead) is at most scanned (the records examined).
C8_ZombiesWithinScanned ==
    call.op = "trigger_scan" => ret.value.zombies <= ret.value.scanned

-----------------------------------------------------------------------------
(* Properties of the tombstone registry (CemeterySpec) *)

\* C5: get_recent_corpses(limit) with limit <= 0 returns an empty sequence,
\* whatever the registry holds.
C5_EmptyForNonPositive ==
    (call.op = "get_recent_corpses" /\ call.arg <= 0) => ret.value = <<>>

\* C6: on a readable registry of k records, get_recent_corpses(limit) with
\* limit >= 0 returns min(limit, k) distinct stored records, in descending
\* order of died_at, none of them with a died_at below that of a record left
\* out.
C6_RecentSorted ==
    (call.op = "get_recent_corpses" /\ call.arg >= 0 /\ tombStore.kind = "ok") =>
        LET r == ret.value
            s == tombStore.records
        IN  /\ Len(r) = Min(call.arg, Len(s))
            /\ \A i, j \in 1..Len(r) : i < j => ~StrLess(r[i].died_at, r[j].died_at)
            /\ \A i \in 1..Len(r) : r[i] \in Range(s)
            /\ \A i, j \in 1..Len(r) : i /= j => r[i] /= r[j]
            /\ \A x \in Range(s) \ Range(r) :
                 \A i \in 1..Len(r) : ~StrLess(r[i].died_at, x.died_at)

\* Two of three records returned from a registry stored in ascending order of
\* died_at: the last stored comes first.
C6_Witness ==
    /\ call.op = "get_recent_corpses"
    /\ call.arg = 2
    /\ tombStore.kind = "ok"
    /\ Len(tombStore.records) = 3
    /\ StrLess(tombStore.records[1].died_at, tombStore.records[2].died_at)
    /\ StrLess(tombStore.records[2].died_at, tombStore.records[3].died_at)
    /\ ret.value = <<tombStore.records[3], tombStore.records[2]>>

\* C9: the persisted registry holds at most one record per id, and after a
\* successful upsert the record just given is at the head and is the only one
\* with its id.
C9_OnePerId ==
    /\ UniqueIds(tombStore.records)
    /\ (call.op = "upsert" /\ ret.status = "ok") =>
         /\ tombStore.kind = "ok"
         /\ Len(tombStore.records) >= 1
         /\ tombStore.records[1] = call.arg
         /\ Cardinality({i \in 1..Len(tombStore.records) :
                            tombStore.records[i].id = call.arg.id}) = 1

\* An upsert of an id that the registry of three records already held.
C9_Witness ==
    /\ call.op = "upsert"
    /\ ret.status = "ok"
    /\ call.found
    /\ Len(tombStore.records) = 3
    /\ tombStore.records[1] = call.arg

====
